---- MODULE Spec2Model ----
(***************************************************************************)
(* Binning helpers of dsutils: cutpoint generation (cutpoints,             *)
(* numericVarCutpoints), number formatting (human_readable_num,            *)
(* humanReadableNum), point-mass extraction (_point_mass), label assembly  *)
(* (_finalize_bins) and the two cutter functions.                          *)
(*                                                                         *)
(* Numbers.  The program computes in binary floating point.  The model     *)
(* computes the same expressions over exact rationals [n, d] (d > 0, in    *)
(* lowest terms), so two numbers are equal exactly when the real values    *)
(* the code's expressions denote are equal.  Rounding (floor, ceil,        *)
(* round-half-even, '%.kf') is carried out on the exact value.             *)
(***************************************************************************)
EXTENDS Integers, Sequences, FiniteSets, TLC

VARIABLES pc, x, cfg, res

vars == <<pc, x, cfg, res>>

(***************************************************************************)
(* Bounds of the model.                                                    *)
(***************************************************************************)
MaxLen == 3
MaxNcuts == 3

(***************************************************************************)
(* Exact arithmetic.                                                       *)
(***************************************************************************)
Abs(a) == IF a < 0 THEN -a ELSE a

RECURSIVE GCD(_, _)
GCD(a, b) == IF b = 0 THEN a ELSE GCD(b, a % b)

RECURSIVE Pow10(_)
Pow10(k) == IF k <= 0 THEN 1 ELSE 10 * Pow10(k - 1)

Rat(n, d) == LET g == GCD(Abs(n), d) IN [n |-> n \div g, d |-> d \div g]

RInt(i) == [n |-> i, d |-> 1]

RAdd(a, b) == Rat(a.n * b.d + b.n * a.d, a.d * b.d)

RSub(a, b) == Rat(a.n * b.d - b.n * a.d, a.d * b.d)

RMul(a, b) == Rat(a.n * b.n, a.d * b.d)

RLess(a, b) == a.n * b.d < b.n * a.d

RLeq(a, b) == a.n * b.d <= b.n * a.d

RAbs(a) == [n |-> Abs(a.n), d |-> a.d]

\* 1 / a for a # 0
RInv(a) == IF a.n > 0 THEN [n |-> a.d, d |-> a.n] ELSE [n |-> -a.d, d |-> -a.n]

\* a * 10^k for any integer k
RScale10(a, k) == IF k >= 0 THEN Rat(a.n * Pow10(k), a.d) ELSE Rat(a.n, a.d * Pow10(-k))

\* np.floor and np.ceil of the rational a
RFloor(a) == a.n \div a.d

RCeil(a) == -((-a.n) \div a.d)

\* round half to even of the rational a (np.round, and the rounding of '%.kf')
RoundHalfEven(a) ==
    LET f == a.n \div a.d
        r == a.n - f * a.d
    IN  IF 2 * r < a.d THEN f
        ELSE IF 2 * r > a.d THEN f + 1
        ELSE IF f % 2 = 0 THEN f ELSE f + 1

(***************************************************************************)
(* Sequences and sets of numbers.                                          *)
(***************************************************************************)
Range(s) == {s[i] : i \in DOMAIN s}

RatSeq(s) == [i \in DOMAIN s |-> RInt(s[i])]

RMinOf(S) == CHOOSE a \in S : \A b \in S : RLeq(a, b)

RMaxOf(S) == CHOOSE a \in S : \A b \in S : RLeq(b, a)

\* np.unique / sorted(): the elements of the set S of rationals, ascending
RECURSIVE SortRatSet(_)
SortRatSet(S) ==
    IF S = {} THEN <<>>
    ELSE LET m == RMinOf(S) IN <<m>> \o SortRatSet(S \ {m})

\* the sequence s of rationals sorted ascending, duplicates kept
RECURSIVE InsertSorted(_, _)
InsertSorted(s, v) ==
    IF s = <<>> THEN <<v>>
    ELSE IF RLeq(v, Head(s)) THEN <<v>> \o s
    ELSE <<Head(s)>> \o InsertSorted(Tail(s), v)

RECURSIVE SortRatSeq(_)
SortRatSeq(s) == IF s = <<>> THEN <<>> ELSE InsertSorted(SortRatSeq(Tail(s)), Head(s))

(***************************************************************************)
(* _log_spcl and _order_of_mag (binners), log_spcl (histograms):           *)
(* floor(log10(|v|)), and 0 for v = 0.                                     *)
(***************************************************************************)
RECURSIVE OrdUp(_, _)
OrdUp(a, k) == IF RLess(a, RInt(Pow10(k + 1))) THEN k ELSE OrdUp(a, k + 1)

RECURSIVE OrdDown(_, _)
OrdDown(a, j) == IF RLeq(RInt(1), RScale10(a, j)) THEN -j ELSE OrdDown(a, j + 1)

\* int(np.floor(math.log(abs(v), 10))) for v # 0
FloorLog10(v) == IF RLeq(RInt(1), RAbs(v)) THEN OrdUp(RAbs(v), 0) ELSE OrdDown(RAbs(v), 1)

order_of_mag(v) == IF v.n = 0 THEN 0 ELSE FloorLog10(v)

(***************************************************************************)
(* The rounded-down lower bound and rounded-up upper bound of a sample.    *)
(***************************************************************************)
\* lb = np.floor(lb * 10**lb_pwr) / 10**lb_pwr
FloorSigWrong(v, sig_fig) ==
    LET pwr == sig_fig - 1 - order_of_mag(v)
    IN  RScale10(RInt(RoundHalfEven(RScale10(v, pwr))), -pwr)

FloorSig(v, sig_fig) ==
    LET pwr == sig_fig - 1 - order_of_mag(v)
    IN  RScale10(RInt(RFloor(RScale10(v, pwr))), -pwr)

\* ub = np.ceil(ub * 10**ub_pwr) / 10**ub_pwr
CeilSig(v, sig_fig) ==
    LET pwr == sig_fig - 1 - order_of_mag(v)
    IN  RScale10(RInt(RCeil(RScale10(v, pwr))), -pwr)

LowerBound(xs, sig_fig) == FloorSig(RMinOf(Range(xs)), sig_fig)

UpperBound(xs, sig_fig) == CeilSig(RMaxOf(Range(xs)), sig_fig)

(***************************************************************************)
(* np.quantile (linear interpolation) and np.linspace.                      *)
(***************************************************************************)
\* np.quantile(xs, q) for one fraction q in [0, 1]
Quantile(xs, q) ==
    LET s == SortRatSeq(xs)
        h == RMul(RInt(Len(s) - 1), q)
        lo == RFloor(h)
        fr == RSub(h, RInt(lo))
    IN  IF lo + 1 >= Len(s) THEN s[Len(s)]
        ELSE RAdd(s[lo + 1], RMul(fr, RSub(s[lo + 2], s[lo + 1])))

\* np.linspace(a, b, num)
Linspace(a, b, num) ==
    [i \in 1..num |->
        IF num = 1 THEN a
        ELSE RAdd(a, RMul(Rat(i - 1, num - 1), RSub(b, a)))]

(***************************************************************************)
(* 10**np.linspace(sign(a)*log10(|a|), sign(b)*log10(|b|), num).           *)
(* The first and last points are |a|^sign(a) and |b|^sign(b).  An interior *)
(* point is F^(1-t) * L^t, irrational in general: it lies between the      *)
(* smaller endpoint and the linear interpolation (weighted AM-GM), and the *)
(* model places it at the fraction w of that interval, w drawn by Init.    *)
(***************************************************************************)
\* 10**(sign(e) * log10(|e|)) for e # 0
LogPoint(e) == IF e.n > 0 THEN e ELSE RInv(RAbs(e))

\* 10**(sign(e) * log10(|e| + 1))
LogP1Point(e) ==
    IF e.n > 0 THEN RAdd(e, RInt(1))
    ELSE IF e.n < 0 THEN RInv(RAdd(RAbs(e), RInt(1)))
    ELSE RInt(1)

GeomSpace(F, L, num, w) ==
    [i \in 1..num |->
        IF i = 1 THEN F
        ELSE IF i = num THEN L
        ELSE LET t == Rat(i - 1, num - 1)
             IN  IF RLeq(F, L)
                 THEN RAdd(F, RMul(RMul(t, w), RSub(L, F)))
                 ELSE RAdd(L, RMul(RMul(RSub(RInt(1), t), w), RSub(F, L)))]

(***************************************************************************)
(* Re-rounding of every point to sig_fig significant figures:              *)
(* np.round(c / 10.0**ord, sig_fig - 1) * 10.0**ord                        *)
(***************************************************************************)
RoundSig(v, sig_fig) ==
    LET o == order_of_mag(v)
        m == RoundHalfEven(RScale10(v, sig_fig - 1 - o))
    IN  RScale10(RInt(m), o - (sig_fig - 1))

(***************************************************************************)
(* Cutpoint generation.  A quantile window is a sequence of records        *)
(* [q, float]: q the fraction, float whether the caller passed a float;    *)
(* the empty sequence stands for None.  cuts is a record [kind, pts]:      *)
(* kind one of the strategy strings, or "explicit" with the caller's       *)
(* cutpoints in pts.                                                       *)
(***************************************************************************)
\* qntl_cutoff is not None and len(qntl_cutoff) == 2 and both are floats
WindowEnabled(qntl_cutoff) ==
    /\ Len(qntl_cutoff) = 2
    /\ qntl_cutoff[1].float
    /\ qntl_cutoff[2].float

\* ep = np.quantile(x, qntl_cutoff), or np.array([lb, ub])
Endpoints(xs, qntl_cutoff, lb, ub) ==
    IF WindowEnabled(qntl_cutoff)
    THEN <<Quantile(xs, qntl_cutoff[1].q), Quantile(xs, qntl_cutoff[2].q)>>
    ELSE <<lb, ub>>

\* the branches 'linear', 'logp1', 'quantile' and explicit cutpoints
PlainPoints(xs, ep, cuts, ncuts, w) ==
    IF cuts.kind = "linear" THEN Range(Linspace(ep[1], ep[2], ncuts))
    ELSE IF cuts.kind = "logp1"
    THEN {RInt(0)} \cup Range(GeomSpace(LogP1Point(ep[1]), LogP1Point(ep[2]), ncuts, w))
    ELSE IF cuts.kind = "quantile"
    THEN {Quantile(xs, q) : q \in Range(Linspace(RInt(0), RInt(1), ncuts))}
    ELSE Range(RatSeq(cuts.pts))

\* the else branch of 'log'
LogPoints(ep, ncuts, w) == Range(GeomSpace(LogPoint(ep[1]), LogPoint(ep[2]), ncuts, w))

\* c = np.unique(np.append(np.append(lb, c), ub))
WithEndpointsNoLb(lb, c, ub) == c \cup {ub}

WithEndpoints(lb, c, ub) == {lb} \cup c \cup {ub}

\* c_final = np.unique(c_log_rnd * (10.0**c_ord_of_mag))
FinalCutpoints(c, sig_fig) == SortRatSet({RoundSig(v, sig_fig) : v \in c})

Raised(e) == [err |-> e, c_final |-> <<>>]

Returned(c) == [err |-> "none", c_final |-> c]

\* binners: if ep[0] <= 0
LogRejected(ep) == ep[1].n <= 0

\* histograms: if ep[0] == 0 or ep[1] == 0
logRejected(ep) == ep[1].n = 0 \/ ep[2].n = 0

\* np.quantile(x, qntl_cutoff) raises ValueError for a fraction outside
\* [0, 1]; it does not compare the two fractions with each other
QuantileRaises(qntl_cutoff) ==
    /\ WindowEnabled(qntl_cutoff)
    /\ \E i \in 1..2 :
          RLess(qntl_cutoff[i].q, RInt(0)) \/ RLess(RInt(1), qntl_cutoff[i].q)

\* np.linspace(..., num = ncuts) raises ValueError for a negative num; it
\* returns the empty array for num = 0
LinspaceRaises(cuts, ncuts) == cuts.kind # "explicit" /\ ncuts < 0

\* binners-checkpoint.py cutpoints
cutpoints(xs, qntl_cutoff, cuts, ncuts, sig_fig, w) ==
    LET lb == LowerBound(xs, sig_fig)
        ub == UpperBound(xs, sig_fig)
        ep == Endpoints(xs, qntl_cutoff, lb, ub)
    IN  IF QuantileRaises(qntl_cutoff) THEN Raised("ValueError")
        ELSE IF cuts.kind = "log" /\ LogRejected(ep) THEN Raised("ValueError")
        ELSE IF cuts.kind = "log" /\ ep[2].n = 0 THEN Raised("math domain error")
        ELSE IF LinspaceRaises(cuts, ncuts) THEN Raised("ValueError")
        ELSE LET c == IF cuts.kind = "log" THEN LogPoints(ep, ncuts, w)
                      ELSE PlainPoints(xs, ep, cuts, ncuts, w)
             IN  Returned(FinalCutpoints(WithEndpoints(lb, c, ub), sig_fig))

\* histograms.py numericVarCutpoints (c_final of the returned pair)
numericVarCutpoints(xs, qntlCutoff, cuts, ncuts, sigFig, w) ==
    LET lb == LowerBound(xs, sigFig)
        ub == UpperBound(xs, sigFig)
        ep == Endpoints(xs, qntlCutoff, lb, ub)
    IN  IF QuantileRaises(qntlCutoff) THEN Raised("ValueError")
        ELSE IF cuts.kind = "log" /\ logRejected(ep) THEN Raised("ValueError")
        ELSE IF LinspaceRaises(cuts, ncuts) THEN Raised("ValueError")
        ELSE LET c == IF cuts.kind = "log" THEN LogPoints(ep, ncuts, w)
                      ELSE PlainPoints(xs, ep, cuts, ncuts, w)
             IN  Returned(FinalCutpoints(WithEndpoints(lb, c, ub), sigFig))

(***************************************************************************)
(* Inputs of the cutpoint generators.                                      *)
(***************************************************************************)
SampleValues == {-12, -2, 0, 1, 5, 123}

\* non-empty samples; the generators read a sample only through its
\* minimum, maximum and quantiles, so samples are drawn in ascending order
Samples ==
    {s \in UNION {[1..n -> SampleValues] : n \in 1..MaxLen} :
        \A i \in 1..(Len(s) - 1) : s[i] <= s[i + 1]}

F(n, d) == [q |-> Rat(n, d), float |-> TRUE]

I(n) == [q |-> RInt(n), float |-> FALSE]

\* None, the default [0.025, 0.975], [0.25, 0.75], and the integers [0, 1]
Windows == {<<>>, <<F(1, 40), F(39, 40)>>, <<F(1, 4), F(3, 4)>>, <<I(0), I(1)>>}

Strategies ==
    {[kind |-> k, pts |-> <<>>] : k \in {"linear", "log", "logp1", "quantile"}}
    \cup {[kind |-> "explicit", pts |-> p] : p \in {<<-50, 2, 200>>}}

SigFigs == {1, 2, 3}

GeomWeights == {Rat(1, 2), RInt(1)}

Configs ==
    {[qntl_cutoff |-> q, cuts |-> c, ncuts |-> n, sig_fig |-> sf, w |-> w] :
        q \in Windows, c \in Strategies, n \in 1..MaxNcuts, sf \in SigFigs,
        w \in GeomWeights}

\* w is read only by the strategies 'log' and 'logp1'
CutConfigs == {c \in Configs : c.cuts.kind \in {"log", "logp1"} \/ c.w = RInt(1)}

InitCut ==
    /\ pc = "start"
    /\ x \in Samples
    /\ cfg \in CutConfigs
    /\ res = [fn |-> "none"]

CallCutpoints ==
    /\ pc = "start"
    /\ pc' = "done"
    /\ res' = [fn |-> "cutpoints"] @@
              cutpoints(RatSeq(x), cfg.qntl_cutoff, cfg.cuts, cfg.ncuts, cfg.sig_fig, cfg.w)
    /\ UNCHANGED <<x, cfg>>

CallNumericVarCutpoints ==
    /\ pc = "start"
    /\ pc' = "done"
    /\ res' = [fn |-> "numericVarCutpoints"] @@
              numericVarCutpoints(RatSeq(x), cfg.qntl_cutoff, cfg.cuts, cfg.ncuts,
                                  cfg.sig_fig, cfg.w)
    /\ UNCHANGED <<x, cfg>>

NextCut == CallCutpoints \/ CallNumericVarCutpoints

SpecCut == InitCut /\ [][NextCut]_vars

(***************************************************************************)
(* Properties of the cutpoint generators (SpecCut).                        *)
(***************************************************************************)
CutReturned == pc = "done" /\ res.fn \in {"cutpoints", "numericVarCutpoints"} /\ res.err = "none"

StrictlyIncreasing(c) == \A i \in 1..(Len(c) - 1) : RLess(c[i], c[i + 1])

First(c) == c[1]

Last(c) == c[Len(c)]

SampleFloor == LowerBound(RatSeq(x), cfg.sig_fig)

SampleCeiling == UpperBound(RatSeq(x), cfg.sig_fig)

SampleMin == RMinOf(Range(RatSeq(x)))

SampleMax == RMaxOf(Range(RatSeq(x)))

WorkingEndpoints == Endpoints(RatSeq(x), cfg.qntl_cutoff, SampleFloor, SampleCeiling)

\* C1: every returned cutpoint set is strictly increasing and has at least
\* two elements, for every strategy and window, also when all sample values
\* are equal.
C1_IncreasingAtLeastTwo ==
    CutReturned => StrictlyIncreasing(res.c_final) /\ Len(res.c_final) >= 2

C6_LogFailsOnNonPositiveEndpoint ==
    (pc = "done" /\ cfg.cuts.kind = "log"
        /\ (WorkingEndpoints[1].n <= 0 \/ WorkingEndpoints[2].n <= 0))
    => res.err = "ValueError"

\* C7: with strategy log, generation fails for every sample whose minimum
\* is <= 0, whatever the quantile window.
C7_LogFailsOnNonPositiveMin ==
    (pc = "done" /\ cfg.cuts.kind = "log" /\ SampleMin.n <= 0) => res.err # "none"

Dec(m, e) == [m |-> m, e |-> e]

\* the decimal equal to the rational r, whose denominator divides a power of 10
RECURSIVE DecimalsOf(_, _)
DecimalsOf(d, k) == IF Pow10(k) % d = 0 THEN k ELSE DecimalsOf(d, k + 1)

ToDec(r) == LET k == DecimalsOf(r.d, 0) IN Dec(r.n * (Pow10(k) \div r.d), -k)

RECURSIVE NumDigits(_)
NumDigits(n) == IF n < 10 THEN 1 ELSE 1 + NumDigits(n \div 10)

\* floor(log10(|v|)) of the decimal v # 0
DecOrd(v) == NumDigits(Abs(v.m)) - 1 + v.e

Digit(k) == <<"0", "1", "2", "3", "4", "5", "6", "7", "8", "9">>[k + 1]

\* str(n) for an integer n
RECURSIVE NatStr(_)
NatStr(n) == IF n < 10 THEN <<Digit(n)>> ELSE NatStr(n \div 10) \o <<Digit(n % 10)>>

IntStr(n) == IF n < 0 THEN <<"-">> \o NatStr(-n) ELSE NatStr(n)

\* the k digits of n, zero padded on the left
RECURSIVE FracStr(_, _)
FracStr(n, k) == IF k = 0 THEN <<>> ELSE FracStr(n \div 10, k - 1) \o <<Digit(n % 10)>>

\* ('%.' + str(k) + 'f') % v for k >= 0: v rounded half to even at k decimals
FixedStr(v, k) ==
    LET r == RoundHalfEven(RAbs(RScale10(RInt(v.m), v.e + k)))
        whole == NatStr(r \div Pow10(k))
        body == IF k = 0 THEN whole ELSE whole \o <<".">> \o FracStr(r % Pow10(k), k)
    IN  IF v.m < 0 THEN <<"-">> \o body ELSE body

\* ('%.' + str(k) + 'f%s') % (v, unit); a negative k is no valid format
Formatted(v, k, unit) ==
    IF k < 0 THEN [err |-> "ValueError", z |-> <<>>]
    ELSE [err |-> "none", z |-> FixedStr(v, k) \o unit]

units == <<<<>>, <<"K">>, <<"M">>, <<"G">>, <<"T">>, <<"P">>>>

\* binners-checkpoint.py human_readable_num
human_readable_num(number, sig_fig) ==
    IF number.m = 0 THEN [err |-> "none", z |-> <<"0">>]
    ELSE IF DecOrd(number) < 0
    THEN LET magnitude == DecOrd(number)
         IN  IF magnitude >= -2
             THEN Formatted(number, sig_fig - 1 - magnitude, <<>>)
             ELSE Formatted(Dec(number.m, number.e - magnitude), sig_fig - 1,
                            <<"E">> \o IntStr(magnitude))
    ELSE LET magnitude == DecOrd(number) \div 3
             final_num == Dec(number.m, number.e - 3 * magnitude)
             unit == IF magnitude > 5 THEN <<"E">> \o IntStr(3 * magnitude)
                     ELSE units[magnitude + 1]
         IN  IF DecOrd(final_num) < 1 THEN Formatted(final_num, sig_fig - 1, unit)
             ELSE IF DecOrd(final_num) < 2 THEN Formatted(final_num, sig_fig - 2, unit)
             ELSE Formatted(final_num, sig_fig - 3, unit)

\* histograms.py humanReadableNum
humanReadableNum(number, sigFig) ==
    IF number.m = 0 THEN [err |-> "none", z |-> <<"0">>]
    ELSE IF DecOrd(number) < 0
    THEN LET magnitude == DecOrd(number)
         IN  IF magnitude >= -2
             THEN Formatted(number, sigFig - 1 - magnitude, <<>>)
             ELSE Formatted(Dec(number.m, number.e - magnitude), sigFig - 1,
                            <<"E">> \o IntStr(magnitude))
    ELSE LET magnitude == DecOrd(number) \div 3
             final_num == Dec(number.m, number.e - 3 * magnitude)
             unit == IF magnitude > 5 THEN <<"E">> \o IntStr(3 * magnitude)
                     ELSE units[magnitude + 1]
         IN  IF DecOrd(final_num) < 1 THEN Formatted(final_num, sigFig - 1, unit)
             ELSE IF DecOrd(final_num) < 2 THEN Formatted(final_num, sigFig - 2, unit)
             ELSE Formatted(final_num, sigFig - 3, unit)

(***************************************************************************)
(* The number a formatted string denotes: sign, digits, optional fraction, *)
(* then nothing, a unit letter (a power of 1000) or E and an exponent.     *)
(***************************************************************************)
IsDigit(c) == c \in {"0", "1", "2", "3", "4", "5", "6", "7", "8", "9"}

DigitVal(c) == CHOOSE k \in 0..9 : Digit(k) = c

\* the longest prefix of s made of digits
RECURSIVE DigitPrefix(_)
DigitPrefix(s) ==
    IF s = <<>> \/ ~IsDigit(Head(s)) THEN <<>> ELSE <<Head(s)>> \o DigitPrefix(Tail(s))

Drop(s, k) == SubSeq(s, k + 1, Len(s))

RECURSIVE NatVal(_, _)
NatVal(s, acc) == IF s = <<>> THEN acc ELSE NatVal(Tail(s), 10 * acc + DigitVal(Head(s)))

SuffixExp(s) ==
    IF s = <<>> THEN 0
    ELSE IF Head(s) = "E"
    THEN IF Len(s) > 1 /\ s[2] = "-" THEN -NatVal(Drop(s, 2), 0) ELSE NatVal(Tail(s), 0)
    ELSE 3 * ((CHOOSE i \in DOMAIN units : units[i] = s) - 1)

Denoted(z) ==
    LET neg == z # <<>> /\ Head(z) = "-"
        s1 == IF neg THEN Tail(z) ELSE z
        whole == DigitPrefix(s1)
        s2 == Drop(s1, Len(whole))
        frac == IF s2 # <<>> /\ Head(s2) = "." THEN DigitPrefix(Tail(s2)) ELSE <<>>
        s3 == IF s2 # <<>> /\ Head(s2) = "." THEN Drop(s2, 1 + Len(frac)) ELSE s2
        m == NatVal(whole \o frac, 0)
    IN  Dec(IF neg THEN -m ELSE m, SuffixExp(s3) - Len(frac))

(***************************************************************************)
(* Inputs of the formatters, and the format / re-parse / re-format run.    *)
(***************************************************************************)
Mantissas == {0, 1, 5, 12, 123, 1234, 4567, 9994, 9996, 99951}

Exponents == -8..15

FmtSigFigs == {1, 2, 3, 4}

Numbers == {Dec(sgn * m, e) : sgn \in {-1, 1}, m \in Mantissas, e \in Exponents}

InitFmt ==
    /\ pc = "start"
    /\ x \in Numbers
    /\ cfg \in [sig_fig : FmtSigFigs]
    /\ res = [fn |-> "none"]

FormatWith(fn, number, sig_fig) ==
    IF fn = "human_readable_num" THEN human_readable_num(number, sig_fig)
    ELSE humanReadableNum(number, sig_fig)

CallHumanReadableNum(fn) ==
    /\ pc = "start"
    /\ pc' = "formatted"
    /\ res' = [fn |-> fn, first |-> FormatWith(fn, x, cfg.sig_fig)]
    /\ UNCHANGED <<x, cfg>>

\* the formatted string read back as a number and formatted again
Reformat ==
    /\ pc = "formatted"
    /\ res.first.err = "none"
    /\ pc' = "reformatted"
    /\ res' = [res EXCEPT !.first = @] @@
              [back |-> Denoted(res.first.z),
               second |-> FormatWith(res.fn, Denoted(res.first.z), cfg.sig_fig)]
    /\ UNCHANGED <<x, cfg>>

NextFmt ==
    \/ CallHumanReadableNum("human_readable_num")
    \/ CallHumanReadableNum("humanReadableNum")
    \/ Reformat

SpecFmt == InitFmt /\ [][NextFmt]_vars

\* C10: formatting, parsing the string back to the number it denotes and
\* formatting again yields the same string.
C10_FormatIdempotent ==
    pc = "reformatted" => res.second.err = "none" /\ res.second.z = res.first.z

(***************************************************************************)
(* Columns, point masses and label assembly.  A cell of a column is a      *)
(* record [nan, v]: a missing value, or the number v.  A label is the      *)
(* sequence of its characters; the empty sequence is the missing marker    *)
(* of a binned row.                                                        *)
(***************************************************************************)
NaN == [nan |-> TRUE, v |-> 0]

Cell(v) == [nan |-> FALSE, v |-> v]

Missing == <<>>

\* the non-missing values of the rows of col selected by keep, in row order
RECURSIVE ValuesWhere(_, _)
ValuesWhere(col, keep) ==
    IF col = <<>> THEN <<>>
    ELSE LET rest == ValuesWhere(Tail(col), [i \in 1..(Len(col) - 1) |-> keep[i + 1]])
         IN  IF keep[1] /\ ~Head(col).nan THEN <<RInt(Head(col).v)>> \o rest ELSE rest

NonMissing(col) == ValuesWhere(col, [i \in DOMAIN col |-> TRUE])

Count(vals, v) == Cardinality({i \in DOMAIN vals : vals[i] = v})

\* binners-checkpoint.py _point_mass: value_counts(normalize=True) drops the
\* missing values; cnts > threshold; sorted ascending
point_mass_inclusive(col, threshold) ==
    LET vals == NonMissing(col)
    IN  SortRatSet({v \in Range(vals) :
            Count(vals, v) * threshold.d >= threshold.n * Len(vals)})

point_mass(col, threshold) ==
    LET vals == NonMissing(col)
    IN  SortRatSet({v \in Range(vals) :
            Count(vals, v) * threshold.d > threshold.n * Len(vals)})

\* str(n).zfill(2)
Zfill2(n) == IF n < 10 THEN <<"0">> \o NatStr(n) ELSE NatStr(n)

\* str(n).zfill(2) + ": " + value
PointLabel(n, value) == Zfill2(n) \o <<":", " ">> \o value

\* str(n).zfill(2) + ': ' + lower + ' - ' + upper
RangeLabel(n, lower, upper) ==
    Zfill2(n) \o <<":", " ">> \o lower \o <<" ", "-", " ">> \o upper

\* the nearest cutpoint to j among all of cps, the two ends included
NearestOfAll(cps, j) ==
    LET dist(i) == RAbs(RSub(cps[i], j))
    IN  CHOOSE i \in 1..Len(cps) :
            \A k \in 1..Len(cps) :
                RLess(dist(i), dist(k)) \/ (dist(i) = dist(k) /\ i <= k)

\* min(range(len(cps_int)), key = lambda i: abs(cps_int[i] - j)) + 1, as an
\* index of the 1-based sequence cps: the first interior cutpoint nearest to j
NearestInterior(cps, j) ==
    LET dist(i) == RAbs(RSub(cps[i], j))
    IN  CHOOSE i \in 2..(Len(cps) - 1) :
            \A k \in 2..(Len(cps) - 1) :
                RLess(dist(i), dist(k)) \/ (dist(i) = dist(k) /\ i <= k)

\* the sequence s without the indices in ridx
RECURSIVE DeleteAt(_, _)
DeleteAt(s, ridx) ==
    IF s = <<>> THEN <<>>
    ELSE LET front == DeleteAt(SubSeq(s, 1, Len(s) - 1), ridx)
         IN  IF Len(s) \in ridx THEN front ELSE front \o <<s[Len(s)]>>

\* sorted(zip(c_final, c_format)) over the set z of (value, label) pairs
RECURSIVE SortPairs(_)
SortPairs(z) ==
    IF z = {} THEN <<>>
    ELSE LET m == CHOOSE a \in z : \A b \in z : RLeq(a[1], b[1])
         IN  <<m>> \o SortPairs(z \ {m})

\* the labelling loop of _finalize_bins, with a range label only between
\* two values that are both no point mass
BinLabelsSkippingPointMasses(c_final, c_format, pm) ==
    LET cntr(i) == Cardinality({k \in 1..i : c_final[k] \in Range(pm)})
        keep == {i \in 1..(Len(c_final) - 1) :
                    c_final[i] \notin Range(pm) /\ c_final[i + 1] \notin Range(pm)}
        one(i) == IF i \in keep
                  THEN <<RangeLabel(i + cntr(i), c_format[i], c_format[i + 1])>>
                  ELSE <<>>
        RECURSIVE upto(_)
        upto(i) == IF i = 0 THEN <<>> ELSE upto(i - 1) \o one(i)
    IN  upto(Len(c_final) - 1)

\* the labelling loop of _finalize_bins, with range labels numbered by their
\* index alone
BinLabelsUncounted(c_final, c_format, pm) ==
    [i \in 1..(Len(c_final) - 1) |-> RangeLabel(i, c_format[i], c_format[i + 1])]

\* the labelling loop of _finalize_bins: bin_labels
BinLabels(c_final, c_format, pm) ==
    LET cntr(i) == Cardinality({k \in 1..i : c_final[k] \in Range(pm)})
    IN  [i \in 1..(Len(c_final) - 1) |->
            RangeLabel(i + cntr(i), c_format[i], c_format[i + 1])]

\* the labelling loop of _finalize_bins: pm_labels
PmLabelsReversed(c_final, c_format, pm) ==
    LET cntr(i) == Cardinality({k \in 1..i : c_final[k] \in Range(pm)})
        one(i) == IF c_final[i] \in Range(pm)
                  THEN <<PointLabel(i + cntr(i - 1), c_format[i])>>
                  ELSE <<>>
        RECURSIVE upto(_)
        upto(i) == IF i = 0 THEN <<>> ELSE one(i) \o upto(i - 1)
    IN  upto(Len(c_final))

PmLabels(c_final, c_format, pm) ==
    LET cntr(i) == Cardinality({k \in 1..i : c_final[k] \in Range(pm)})
        one(i) == IF c_final[i] \in Range(pm)
                  THEN <<PointLabel(i + cntr(i - 1), c_format[i])>>
                  ELSE <<>>
        RECURSIVE upto(_)
        upto(i) == IF i = 0 THEN <<>> ELSE upto(i - 1) \o one(i)
    IN  upto(Len(c_final))

\* ridx of _finalize_bins: the indices to delete, none when len(cps) <= 2
RemovalIndices(cps, pm) ==
    IF Len(cps) > 2 THEN {NearestInterior(cps, pm[k]) : k \in DOMAIN pm} ELSE {}

\* del cps[index]; del cps_format[index] for every index of ridx
RemoveAt(cps, cps_format, ridx) ==
    [cps |-> DeleteAt(cps, ridx), cps_format |-> DeleteAt(cps_format, ridx)]

\* _finalize_bins up to cps = np.array(cps)
RemoveNearest(cps, cps_format, pm) ==
    RemoveAt(cps, cps_format, RemovalIndices(cps, pm))

\* _finalize_bins from c_final = np.concatenate([cps, pm]) on; kept holds
\* cps and cps_format after the deletions
MergeAndLabel(kept, pm, pm_format) ==
    LET z == {<<kept.cps[i], kept.cps_format[i]>> : i \in DOMAIN kept.cps}
             \cup {<<pm[i], pm_format[i]>> : i \in DOMAIN pm}
        sorted == SortPairs(z)
        c_final == [i \in DOMAIN sorted |-> sorted[i][1]]
        c_format == [i \in DOMAIN sorted |-> sorted[i][2]]
    IN  [c_final |-> c_final,
         bin_labels |-> BinLabels(c_final, c_format, pm),
         pm_labels |-> PmLabels(c_final, c_format, pm)]

\* binners-checkpoint.py _finalize_bins
finalize_bins(cps, cps_format, pm, pm_format) ==
    MergeAndLabel(RemoveNearest(cps, cps_format, pm), pm, pm_format)

(***************************************************************************)
(* The two cutter functions.                                               *)
(***************************************************************************)
\* pd.cut(values, bins, labels=labels, include_lowest=True) for one value:
\* right-closed intervals, the first one closed on the left as well; a value
\* in no interval is missing
Cut(v, bins, labels) ==
    IF Len(bins) >= 2 /\ v = bins[1] THEN labels[1]
    ELSE IF \E i \in 1..(Len(bins) - 1) : RLess(bins[i], v) /\ RLeq(v, bins[i + 1])
    THEN labels[CHOOSE i \in 1..(Len(bins) - 1) : RLess(bins[i], v) /\ RLeq(v, bins[i + 1])]
    ELSE Missing

\* the characters of a label in code-point order
Chars == <<" ", "-", ".", "0", "1", "2", "3", "4", "5", "6", "7", "8", "9", ":",
           "E", "G", "K", "M", "P", "T">>

CharCode(c) == CHOOSE i \in DOMAIN Chars : Chars[i] = c

RECURSIVE StrLeq(_, _)
StrLeq(a, b) ==
    IF a = <<>> THEN TRUE
    ELSE IF b = <<>> THEN FALSE
    ELSE IF Head(a) = Head(b) THEN StrLeq(Tail(a), Tail(b))
    ELSE CharCode(Head(a)) < CharCode(Head(b))

\* final_labels = bin_labels + pm_labels; final_labels.sort()
RECURSIVE SortLabels(_)
SortLabels(S) ==
    IF S = {} THEN <<>>
    ELSE LET m == CHOOSE a \in S : \A b \in S : StrLeq(a, b)
         IN  <<m>> \o SortLabels(S \ {m})

\* pd.Categorical(values, categories): a value that is no category is missing
Categorical(values, categories) ==
    [i \in DOMAIN values |->
        IF values[i] \in Range(categories) THEN values[i] ELSE Missing]

IndexOf(s, v) == CHOOSE i \in DOMAIN s : s[i] = v

CutterRaised(fn, e) ==
    [fn |-> fn, err |-> e, pm |-> <<>>, cps |-> <<>>, c_final |-> <<>>,
     bin_labels |-> <<>>, pm_labels |-> <<>>, categories |-> <<>>, z |-> <<>>]

\* sig_fig = 3, the default of cutpoints: cutter passes it no sig_fig
DefaultSigFig == 3

\* df[x].isin(pm), row by row
IsPointMass(col, pm) ==
    [i \in DOMAIN col |-> ~col[i].nan /\ RInt(col[i].v) \in Range(pm)]

\* rem.loc[x_no_nan, x].values: the non-missing values that are no point mass
Remaining(col, pm) ==
    ValuesWhere(col, [i \in DOMAIN col |-> RInt(col[i].v) \notin Range(pm)])

\* [human_readable_num(i, sig_fig) for i in vals]
FormatAll(vals, sig_fig) ==
    [i \in DOMAIN vals |-> human_readable_num(ToDec(vals[i]), sig_fig)]

FormatRaised(fmt) == \E i \in DOMAIN fmt : fmt[i].err # "none"

Texts(fmt) == [i \in DOMAIN fmt |-> fmt[i].z]

\* binners-checkpoint.py cutter, from "Bin values" on: fb is what
\* _finalize_bins returned
BinValues(col, pm, cps, fb) ==
    LET isPm == IsPointMass(col, pm)
        binned == [i \in DOMAIN col |->
                      IF isPm[i] THEN fb.pm_labels[IndexOf(pm, RInt(col[i].v))]
                      ELSE IF col[i].nan THEN Missing
                      ELSE Cut(RInt(col[i].v), fb.c_final, fb.bin_labels)]
        final_labels == SortLabels(Range(fb.bin_labels) \cup Range(fb.pm_labels))
    IN  [fn |-> "cutter", err |-> "none", pm |-> pm, cps |-> cps,
         c_final |-> fb.c_final, bin_labels |-> fb.bin_labels,
         pm_labels |-> fb.pm_labels, categories |-> final_labels,
         z |-> Categorical(binned, final_labels)]

\* binners-checkpoint.py cutter, from the call of _finalize_bins on
FinalizeAndBin(col, pm, cps, cps_fmt, pm_fmt) ==
    IF FormatRaised(cps_fmt) \/ FormatRaised(pm_fmt)
    THEN CutterRaised("cutter", "ValueError")
    ELSE BinValues(col, pm, cps, finalize_bins(cps, Texts(cps_fmt), pm, Texts(pm_fmt)))

\* binners-checkpoint.py cutter, the formatting of cps and pm; cp is what
\* cutpoints returned or raised
FormatAndBin(col, sig_fig, pm, cp) ==
    IF cp.err # "none" THEN CutterRaised("cutter", cp.err)
    ELSE FinalizeAndBin(col, pm, cp.c_final,
                        FormatAll(cp.c_final, sig_fig), FormatAll(pm, sig_fig))

\* binners-checkpoint.py cutter, the two branches on len(pm): cutpoints of
\* the remaining values, none when every non-missing value is a point mass
CutRemaining(col, max_levels, sig_fig, kw, pm, rem) ==
    FormatAndBin(col, sig_fig, pm,
        IF rem = <<>> /\ pm = <<>> THEN Raised("ValueError")
        ELSE IF rem = <<>> THEN Returned(<<>>)
        ELSE cutpoints(rem, kw.qntl_cutoff, kw.cuts, max_levels, DefaultSigFig, kw.w))

\* binners-checkpoint.py cutter; kw holds the keyword arguments passed on
\* to cutpoints (qntl_cutoff, cuts)
CutterWith(col, max_levels, sig_fig, kw, pm) ==
    CutRemaining(col, max_levels, sig_fig, kw, pm, Remaining(col, pm))

cutter(col, max_levels, point_mass_threshold, sig_fig, kw) ==
    CutterWith(col, max_levels, sig_fig, kw, point_mass(col, point_mass_threshold))

\* ncuts = 10, the default of numericVarCutpoints: cutter passes it no ncuts
\* unless the caller puts one among the keyword arguments
DefaultNcuts == 10

\* histograms.py cutter, the labels and pd.cut
CutWithLabels(col, c_final, labels) ==
    [fn |-> "histograms.cutter", err |-> "none", pm |-> <<>>,
     cps |-> c_final, c_final |-> c_final, bin_labels |-> labels,
     pm_labels |-> <<>>, categories |-> labels,
     z |-> [i \in DOMAIN col |->
               IF col[i].nan THEN Missing
               ELSE Cut(RInt(col[i].v), c_final, labels)]]

\* histograms.py cutter, c_format and the bin labels built from it
LabelAndCut(col, c_final, fmt) ==
    IF FormatRaised(fmt) THEN CutterRaised("histograms.cutter", "ValueError")
    ELSE CutWithLabels(col, c_final,
             [i \in 1..(Len(fmt) - 1) |-> RangeLabel(i, fmt[i].z, fmt[i + 1].z)])

\* histograms.py cutter, after numericVarCutpoints returned or raised cp
FormatAndCut(col, sigFig, cp) ==
    IF cp.err # "none" THEN CutterRaised("histograms.cutter", cp.err)
    ELSE LabelAndCut(col, cp.c_final,
             [i \in DOMAIN cp.c_final |-> humanReadableNum(ToDec(cp.c_final[i]), sigFig)])

\* histograms.py cutter, the call of numericVarCutpoints on the non-missing
\* values vals
CutValues(col, kw, vals) ==
    FormatAndCut(col, kw.sig_fig,
        IF vals = <<>> THEN Raised("ValueError")
        ELSE numericVarCutpoints(vals, kw.qntl_cutoff, kw.cuts, DefaultNcuts,
                                 kw.sig_fig, kw.w))

\* histograms.py cutter; kw holds the keyword arguments passed on to
\* numericVarCutpoints (qntlCutoff, cuts, sigFig); max_levels is not read
histograms_cutter(col, max_levels, kw) == CutValues(col, kw, NonMissing(col))

(***************************************************************************)
(* Inputs of the cutters.                                                  *)
(***************************************************************************)
MaxRows == 5
MaxLevels == 3

ColumnValues == {0, 1, 1230, 1234}

Cells == {NaN} \cup {Cell(v) : v \in ColumnValues}

CellLeq(a, b) == a.nan \/ (~b.nan /\ a.v <= b.v)

\* columns with at least one row; a row is binned by its value alone, so
\* columns are drawn with the missing rows first and the values ascending
Columns ==
    {c \in UNION {[1..n -> Cells] : n \in 1..MaxRows} :
        \A i \in 1..(Len(c) - 1) : CellLeq(c[i], c[i + 1])}

\* the default 0.1, and two thresholds a frequency can equal
Thresholds == {Rat(1, 10), Rat(1, 4), Rat(1, 2)}

BinStrategies == {[kind |-> k, pts |-> <<>>] : k \in {"linear", "log"}}

BinConfigs ==
    {[max_levels |-> n, point_mass_threshold |-> t, sig_fig |-> sf,
      qntl_cutoff |-> q, cuts |-> c, w |-> RInt(1)] :
        n \in 1..MaxLevels, t \in Thresholds, sf \in {2, 3},
        q \in {<<>>, <<F(1, 40), F(39, 40)>>}, c \in BinStrategies}

InitBin ==
    /\ pc = "start"
    /\ x \in Columns
    /\ cfg \in BinConfigs
    /\ res = [fn |-> "none"]

CallCutter ==
    /\ pc = "start"
    /\ pc' = "done"
    /\ res' = cutter(x, cfg.max_levels, cfg.point_mass_threshold, cfg.sig_fig, cfg)
    /\ UNCHANGED <<x, cfg>>

CallHistogramsCutter ==
    /\ pc = "start"
    /\ pc' = "done"
    /\ res' = histograms_cutter(x, cfg.max_levels, cfg)
    /\ UNCHANGED <<x, cfg>>

CallPointMass ==
    /\ pc = "start"
    /\ pc' = "done"
    /\ res' = [fn |-> "_point_mass", err |-> "none",
               pm |-> point_mass(x, cfg.point_mass_threshold)]
    /\ UNCHANGED <<x, cfg>>

NextBin == CallCutter \/ CallHistogramsCutter \/ CallPointMass

SpecBin == InitBin /\ [][NextBin]_vars

(***************************************************************************)
(* Properties of the point-mass extractor, the assembler and the cutters   *)
(* (SpecBin).                                                              *)
(***************************************************************************)
Rows == DOMAIN x

ValueRows == {i \in Rows : ~x[i].nan}

RowsWith(v) == {i \in ValueRows : x[i].v = v}

\* frequency of v among the non-missing rows, compared with the threshold
FrequencyExceeds(v) ==
    Cardinality(RowsWith(v)) * cfg.point_mass_threshold.d
        > cfg.point_mass_threshold.n * Cardinality(ValueRows)

FrequencyEquals(v) ==
    Cardinality(RowsWith(v)) * cfg.point_mass_threshold.d
        = cfg.point_mass_threshold.n * Cardinality(ValueRows)

FrequentValues == {v \in ColumnValues : RowsWith(v) # {} /\ FrequencyExceeds(v)}

CutterReturned(fn) == pc = "done" /\ res.fn = fn /\ res.err = "none"

\* the label text of the number v as cutter formats it
Text(v) == human_readable_num(ToDec(v), cfg.sig_fig).z

Ordinals == 1..(2 * Len(x) + 2 * DefaultNcuts)

\* C2: every non-missing value is assigned a label of the final label set,
\* never the missing marker, and lies within the final cutpoints.
C2_EveryValueBinned ==
    (pc = "done" /\ res.fn \in {"cutter", "histograms.cutter"} /\ res.err = "none") =>
        \A i \in ValueRows :
            /\ res.z[i] # Missing
            /\ res.z[i] \in Range(res.categories)
            /\ RLeq(First(res.c_final), RInt(x[i].v))
            /\ RLeq(RInt(x[i].v), Last(res.c_final))

\* C8: the extractor returns exactly the distinct values whose normalized
\* frequency is strictly greater than the threshold, ascending, without
\* duplicates; an empty result is no error.
C8_PointMassExact ==
    (pc = "done" /\ res.fn = "_point_mass") =>
        /\ res.err = "none"
        /\ Range(res.pm) = {RInt(v) : v \in FrequentValues}
        /\ StrictlyIncreasing(res.pm)

\* C8 witness: one value's frequency equals the threshold and it is left
\* out, while another value is returned.
C8_Witness ==
    /\ pc = "done"
    /\ res.fn = "_point_mass"
    /\ \E v \in ColumnValues : FrequencyEquals(v) /\ RInt(v) \notin Range(res.pm)
    /\ res.pm # <<>>

\* C8 witness of the empty case: no value qualifies.
C8_WitnessEmpty == pc = "done" /\ res.fn = "_point_mass" /\ res.pm = <<>> /\ ValueRows # {}

\* C4: when cutter returns, every value whose frequency exceeds the threshold
\* has one point label of its own, the k-th point label is that of the k-th
\* smallest such value, and every row holding the value carries that label
\* and no range label.
C4_PointMassIsolated ==
    CutterReturned("cutter") =>
        LET pms == SortRatSet({RInt(v) : v \in FrequentValues})
        IN  /\ Len(res.pm_labels) = Len(pms)
            /\ \A k \in DOMAIN pms :
                  /\ \E n \in Ordinals : res.pm_labels[k] = PointLabel(n, Text(pms[k]))
                  /\ \A l \in DOMAIN pms : l # k => res.pm_labels[l] # res.pm_labels[k]
                  /\ \A i \in ValueRows :
                        RInt(x[i].v) = pms[k] =>
                            /\ res.z[i] = res.pm_labels[k]
                            /\ res.z[i] \notin Range(res.bin_labels)

\* C4 witness: two point masses and a row that is none, binned by cutter.
C4_Witness ==
    /\ CutterReturned("cutter")
    /\ Len(res.pm) = 2
    /\ \E i \in ValueRows : RInt(x[i].v) \notin Range(res.pm) /\ res.z[i] \in Range(res.bin_labels)
    /\ \E i \in ValueRows : res.z[i] = res.pm_labels[2]

AssignableLabels == Range(res.bin_labels) \cup Range(res.pm_labels)

\* C11: when either cutter returns, the number of distinct bin labels it can
\* assign (range bins plus point bins) is at most max_levels.
C11_AtMostMaxLevelsBins ==
    (pc = "done" /\ res.fn \in {"cutter", "histograms.cutter"} /\ res.err = "none") =>
        Cardinality(AssignableLabels) <= cfg.max_levels

(***************************************************************************)
(* Malformed configurations of the cutpoint generators.                    *)
(***************************************************************************)
\* windows with a fraction outside [0, 1], and with low >= high
BadWindows ==
    {<<F(-1, 4), F(3, 4)>>, <<F(1, 4), F(5, 4)>>,
     <<F(3, 4), F(1, 4)>>, <<F(1, 2), F(1, 2)>>}

\* ncuts = 0 and a negative ncuts
BadNcuts == {-1, 0}

MalformedConfigs ==
    {[qntl_cutoff |-> q, cuts |-> c, ncuts |-> n, sig_fig |-> sf, w |-> RInt(1)] :
        q \in BadWindows, c \in Strategies, n \in 1..MaxNcuts, sf \in SigFigs}
    \cup
    {[qntl_cutoff |-> q, cuts |-> c, ncuts |-> n, sig_fig |-> sf, w |-> RInt(1)] :
        q \in Windows \cup BadWindows, c \in Strategies, n \in BadNcuts, sf \in SigFigs}

InitCfg ==
    /\ pc = "start"
    /\ x \in Samples
    /\ cfg \in MalformedConfigs
    /\ res = [fn |-> "none"]

NextCfg == CallCutpoints \/ CallNumericVarCutpoints

SpecCfg == InitCfg /\ [][NextCfg]_vars

WindowOutsideUnit ==
    /\ WindowEnabled(cfg.qntl_cutoff)
    /\ \E i \in 1..2 : cfg.qntl_cutoff[i].q.n < 0
                       \/ cfg.qntl_cutoff[i].q.n > cfg.qntl_cutoff[i].q.d

WindowNotIncreasing ==
    /\ WindowEnabled(cfg.qntl_cutoff)
    /\ RLeq(cfg.qntl_cutoff[2].q, cfg.qntl_cutoff[1].q)

Malformed == WindowOutsideUnit \/ WindowNotIncreasing \/ cfg.ncuts <= 0

\* C12: a call with a malformed configuration (a quantile bound outside
\* [0, 1], low >= high, or a non-positive number of cuts) ends with an error
\* and returns no cutpoints.
C12_MalformedRejected ==
    (pc = "done" /\ Malformed) => (res.err # "none" /\ res.c_final = <<>>)

(***************************************************************************)
(* Decimal places of a formatted number of absolute value at least 1.      *)
(***************************************************************************)
\* the number of digits after the decimal point of the string z
DecimalPlaces(z) ==
    LET s1 == IF z # <<>> /\ Head(z) = "-" THEN Tail(z) ELSE z
        s2 == Drop(s1, Len(DigitPrefix(s1)))
    IN  IF s2 # <<>> /\ Head(s2) = "." THEN Len(DigitPrefix(Tail(s2))) ELSE 0

AtLeastOne == x.m # 0 /\ DecOrd(x) >= 0

\* floor(log10(|x / 1000^magnitude|)) for |x| >= 1: 0, 1 or 2
MantissaOrd == DecOrd(x) % 3

\* C13: a value of absolute value at least 1 is formatted without failure,
\* with 2 decimal places if its mantissa is below 10 in absolute value, 1 if
\* it is below 100, and 0 otherwise, whatever the significant figures.
C13_DecimalsByMantissa ==
    (pc = "formatted" /\ AtLeastOne) =>
        /\ res.first.err = "none"
        /\ DecimalPlaces(res.first.z) = 2 - MantissaOrd

(***************************************************************************)
(* Ordinals of the labels the assembler emits.                             *)
(***************************************************************************)
\* the ordinal a label starts with
OrdinalOf(label) == NatVal(DigitPrefix(label), 0)

EmittedLabels == Len(res.bin_labels) + Len(res.pm_labels)

\* the index in the merged sorted list of the k-th point mass
MergedIndex(k) == CHOOSE i \in DOMAIN res.c_final : res.c_final[i] = res.pm[k]

\* C14: the ordinals on the N emitted labels (range and point labels
\* together) are exactly 1..N, each used once; they increase in the sorted
\* order of the underlying values, and a point mass's label is numbered
\* immediately before the range label that starts at that value.
C14_OrdinalsContinuous ==
    CutterReturned("cutter") =>
        /\ {OrdinalOf(res.bin_labels[i]) : i \in DOMAIN res.bin_labels}
             \cup {OrdinalOf(res.pm_labels[k]) : k \in DOMAIN res.pm_labels}
               = 1..EmittedLabels
        /\ \A i \in DOMAIN res.bin_labels, j \in DOMAIN res.bin_labels :
              i < j => OrdinalOf(res.bin_labels[i]) < OrdinalOf(res.bin_labels[j])
        /\ \A k \in DOMAIN res.pm_labels, l \in DOMAIN res.pm_labels :
              k < l => OrdinalOf(res.pm_labels[k]) < OrdinalOf(res.pm_labels[l])
        /\ \A k \in DOMAIN res.pm_labels :
              /\ \A j \in DOMAIN res.bin_labels :
                    j < MergedIndex(k) =>
                        OrdinalOf(res.bin_labels[j]) < OrdinalOf(res.pm_labels[k])
              /\ MergedIndex(k) < Len(res.c_final) =>
                    OrdinalOf(res.bin_labels[MergedIndex(k)])
                        = OrdinalOf(res.pm_labels[k]) + 1
              /\ MergedIndex(k) = Len(res.c_final) =>
                    OrdinalOf(res.pm_labels[k]) = EmittedLabels

\* C14 witness: a point mass strictly inside the merged list, with range
\* labels before and after it and a second point mass.
C14_Witness ==
    /\ CutterReturned("cutter")
    /\ Len(res.pm_labels) = 2
    /\ Len(res.bin_labels) >= 3
    /\ \E k \in DOMAIN res.pm_labels :
          /\ MergedIndex(k) > 1
          /\ MergedIndex(k) < Len(res.c_final)
          /\ OrdinalOf(res.pm_labels[k]) > 2

(***************************************************************************)
(* The assembler called on its own: cutpoints as cutpoints returns them    *)
(* (ascending, distinct), point masses as _point_mass returns them         *)
(* (ascending, distinct), each with its formatted text.                    *)
(***************************************************************************)
MaxCps == 4
MaxPm == 2

CutpointValues == {0, 1, 5, 10, 1230}

PointMassValues == {1, 3, 7, 2000}

\* the ascending sequences of at most n distinct values of S
AscendingSeqs(S, n) ==
    {q \in UNION {[1..k -> S] : k \in 0..n} :
        \A i \in 1..(Len(q) - 1) : q[i] < q[i + 1]}

\* cutter never calls _finalize_bins with neither cutpoints nor point masses
AssemblerInputs ==
    {[cps |-> c, pm |-> p] :
        c \in AscendingSeqs(CutpointValues, MaxCps),
        p \in AscendingSeqs(PointMassValues, MaxPm)}
    \ {[cps |-> <<>>, pm |-> <<>>]}

InitAsm ==
    /\ pc = "start"
    /\ x \in AssemblerInputs
    /\ cfg \in [sig_fig : {3, 4}]
    /\ res = [fn |-> "none"]

\* cps_format and pm_format as cutter builds them
FormatsOf(vals, sig_fig) == Texts(FormatAll(RatSeq(vals), sig_fig))

CallFinalizeBins ==
    /\ pc = "start"
    /\ pc' = "done"
    /\ res' = [fn |-> "_finalize_bins",
               kept |-> RemoveNearest(RatSeq(x.cps), FormatsOf(x.cps, cfg.sig_fig),
                                      RatSeq(x.pm)),
               out |-> finalize_bins(RatSeq(x.cps), FormatsOf(x.cps, cfg.sig_fig),
                                     RatSeq(x.pm), FormatsOf(x.pm, cfg.sig_fig))]
    /\ UNCHANGED <<x, cfg>>

NextAsm == CallFinalizeBins

SpecAsm == InitAsm /\ [][NextAsm]_vars

Assembled == pc = "done" /\ res.fn = "_finalize_bins"

Interior == 2..(Len(x.cps) - 1)

Distance(i, v) == Abs(x.cps[i] - v)

\* the interior index nearest to the point mass v, the first one of two at
\* the same distance
NearestInteriorIndex(v) ==
    CHOOSE i \in Interior :
        \A j \in Interior :
            Distance(i, v) < Distance(j, v) \/ (Distance(i, v) = Distance(j, v) /\ i <= j)

NearestInteriorIndices == {NearestInteriorIndex(x.pm[k]) : k \in DOMAIN x.pm}

\* the indices of the cutpoints that are gone after step 1
RemovedIndices == {i \in DOMAIN x.cps : RInt(x.cps[i]) \notin Range(res.kept.cps)}

\* C15: with more than 2 cutpoints, step 1 removes exactly the nearest
\* interior cutpoint of every point mass, never the first or the last one;
\* the number removed is the number of distinct nearest interior indices, at
\* most the number of point masses; what remains keeps its order and every
\* remaining cutpoint keeps its own label at its index.  With 2 or fewer
\* cutpoints nothing is removed.
C15_NearestInteriorRemoved ==
    Assembled =>
        /\ Len(res.kept.cps_format) = Len(res.kept.cps)
        /\ StrictlyIncreasing(res.kept.cps)
        /\ Range(res.kept.cps) \subseteq {RInt(v) : v \in Range(x.cps)}
        /\ \A i \in DOMAIN res.kept.cps :
              \E j \in DOMAIN x.cps :
                  /\ res.kept.cps[i] = RInt(x.cps[j])
                  /\ res.kept.cps_format[i] = FormatsOf(x.cps, cfg.sig_fig)[j]
        /\ Len(x.cps) > 2 =>
              /\ RemovedIndices = NearestInteriorIndices
              /\ Len(res.kept.cps) = Len(x.cps) - Cardinality(NearestInteriorIndices)
              /\ Cardinality(RemovedIndices) <= Len(x.pm)
              /\ 1 \notin RemovedIndices
              /\ Len(x.cps) \notin RemovedIndices
        /\ Len(x.cps) <= 2 =>
              /\ res.kept.cps = RatSeq(x.cps)
              /\ res.kept.cps_format = FormatsOf(x.cps, cfg.sig_fig)

\* C15 witness: two point masses with different nearest interior cutpoints,
\* both removed, one of the point masses lying outside the cutpoints.
C15_Witness ==
    /\ Assembled
    /\ Len(x.cps) = 4
    /\ Cardinality(RemovedIndices) = 2
    /\ \E k \in DOMAIN x.pm : x.pm[k] > x.cps[Len(x.cps)]

\* C15 witness of the shared case: two point masses with the same nearest
\* interior cutpoint, removed once.
C15_WitnessShared ==
    /\ Assembled
    /\ Len(x.pm) = 2
    /\ Len(x.cps) > 2
    /\ Cardinality(RemovedIndices) = 1

====
